---- MODULE Spec2Model ----
(***************************************************************************)
(* Photos API (src/main.py): a FastAPI service over one SQLAlchemy table.  *)
(* The photos table is a sequence of rows; every handler opens a session,  *)
(* talks to the table and answers.  Column values are optional: None is    *)
(* SQL NULL / Python None, Some(v) is the value v.                         *)
(*                                                                         *)
(* Spec runs every handler to completion before the next one starts.       *)
(* SpecConc runs two PATCH handlers whose query and commit interleave.     *)
(***************************************************************************)
EXTENDS Integers, Sequences, FiniteSets, TLC

VARIABLES store,   \* the photos table of photos.db, rows in rowid order
          now,     \* the last value datetime.utcnow() returned
          started, \* the process has started: main.py was imported at least once
          db,      \* the session of the last finished operation: "none", "open", "closed"
          resp,    \* the last operation with its request and its answer
          req      \* the two PATCH requests in flight (interleaved handlers)

vars == <<store, now, started, db, resp, req>>

\* ---------------------------------------------------------------- bounds
\* INSERT and UPDATE statements a run may execute (the two seed rows included).
MaxStatements == 3

\* ---------------------------------------------------------------- values
None == <<>>
Some(v) == <<v>>

Fields == {"name", "url", "width", "height"}

SeedUrl == "https://via.placeholder.com/400X300"
SeedWidth == 400
SeedHeight == 300

\* The request bodies the clients send.  A field is left out, null or a value:
\* every subset of the fields with values, and every field set to null, alone
\* and next to values for all the others.
InputValue ==
  [name |-> Some("A"), url |-> Some("u"), width |-> Some(99), height |-> Some(20)]

Bodies ==
  { [f \in D |-> InputValue[f]] : D \in SUBSET Fields }
    \cup { [f \in {n} |-> None] : n \in Fields }
    \cup { [f \in Fields |-> IF f = n THEN None ELSE InputValue[f]] : n \in Fields }

\* ---------------------------------------------------------------- schemas
Required == {"name", "url"}

\* The schema with url declared Optional: only name is required.
NameOnly(data) == {f \in {"name"} : f \notin DOMAIN data \/ data[f] = None}
\* PhotoCreate: name and url are required str (missing or null is an error),
\* width and height are Optional[int].  The fields pydantic reports in the 422.
PhotoCreateErrors(data) == {f \in Required : f \notin DOMAIN data \/ data[f] = None}

\* PhotoCreate(...).model_dump(): every field, the defaults for those left out.
PhotoCreateDump(data) ==
  [f \in Fields |-> IF f \in DOMAIN data THEN data[f] ELSE None]

\* PhotoUpdate: every field Optional with default None; pydantic remembers
\* which fields the request set.
PhotoUpdate(data) ==
  [values |-> [f \in Fields |-> IF f \in DOMAIN data THEN data[f] ELSE None],
   fields_set |-> DOMAIN data \cap Fields]

\* model_dump() without exclude_unset: the fields left out come as None.
DumpAll(m) == m.values
\* photo_data.model_dump(exclude_unset=True)
ModelDumpExcludeUnset(m) == [f \in m.fields_set |-> m.values[f]]

\* ---------------------------------------------------------------- table
RECURSIVE MaxId(_)
MaxId(table) ==
  IF table = <<>> THEN 0
  ELSE LET m == MaxId(Tail(table)) IN IF Head(table).id > m THEN Head(table).id ELSE m

\* An id taken from the last row instead of one past it.
SameId(table) == MaxId(table)
\* id = Column(Integer, primary_key=True): SQLite gives a new row max(rowid)+1.
NextId(table) == MaxId(table) + 1

\* The columns declared without nullable=False.
AllowNull(row) == TRUE
\* name and url are nullable=False: the table rejects a row with a NULL there.
NotNullOk(row) == row.name # None /\ row.url # None

\* The query without its filter: the first row of the table.
FirstAny(table, id) == IF table = <<>> THEN <<>> ELSE <<Head(table)>>
\* db.query(Photo).filter(Photo.id == id).first()
First(table, id) ==
  LET hit == SelectSeq(table, LAMBDA r : r.id = id)
  IN IF hit = <<>> THEN <<>> ELSE <<Head(hit)>>

\* The statements executed so far.  Every statement reads the clock later than
\* the one before it: it sees now + 1, a second read in it now + 1 or now + 2,
\* and it leaves the clock at now + 2.
Statements == now \div 2

\* Photo(**fields) inserted: the two column defaults are two calls of utcnow.
NewRow(table, fields, tc, tu) ==
  [id |-> NextId(table), name |-> fields["name"], url |-> fields["url"],
   width |-> fields["width"], height |-> fields["height"],
   created_at |-> tc, updated_at |-> tu]

\* for key, value in update_data.items(): setattr(photo, key, value)
SetAttrs(photo, update_data) ==
  [k \in DOMAIN photo |->
     IF k \in DOMAIN update_data THEN update_data[k] ELSE photo[k]]

\* The flush writes the columns whose value differs from the value loaded.
Dirty(loaded, photo) == {f \in Fields : photo[f] # loaded[f]}

\* The statement as it would be if the flush wrote the whole object back.
WriteAllColumns(table, pk, cols, photo, t) ==
  [i \in 1..Len(table) |->
     IF table[i].id = pk
       THEN [photo EXCEPT !.id = pk, !.created_at = table[i].created_at,
                          !.updated_at = t]
       ELSE table[i]]
\* UPDATE photos SET <cols>, updated_at = <onupdate> WHERE id = pk
SqlUpdate(table, pk, cols, photo, t) ==
  [i \in 1..Len(table) |->
     IF table[i].id = pk
       THEN [k \in DOMAIN table[i] |->
               IF k \in cols THEN photo[k]
               ELSE IF k = "updated_at" THEN t
               ELSE table[i][k]]
       ELSE table[i]]

\* An answer: the status code, the photo answered (its id), and the detail of
\* an error.  payload is the request body of a request that was carried out.
NoResp == [op |-> "none", status |-> 0, id |-> 0, payload |-> <<>>, detail |-> {}]

\* A PATCH request in flight: where its handler is, what it was sent, the
\* photo as its session loaded it, and the photo it answers with.
Idle ==
  [pc |-> "idle", id |-> 0, payload |-> <<>>, loaded |-> <<>>, photo |-> <<>>,
   status |-> 0]

\* The table takes a statement only if every row keeps its NOT NULL columns.
Accepts(table) == \A i \in 1..Len(table) : NotNullOk(table[i])

\* ---------------------------------------------------------------- start
Init ==
  /\ store = <<>>
  /\ now = 0
  /\ started = FALSE
  /\ db = "none"
  /\ resp = NoResp
  /\ req = [r \in {1, 2} |-> Idle]

SeedFields(n) ==
  [name |-> Some(n), url |-> Some(SeedUrl),
   width |-> Some(SeedWidth), height |-> Some(SeedHeight)]

\* seed_data without the count: it inserts at every start.
SeedAlways(table) == TRUE
\* if db.query(Photo).count() == 0
ShouldSeed(table) == Len(table) = 0

\* seed_data(), run when the module is imported: once per process start.
seed_data ==
  /\ started' = TRUE
  /\ IF ShouldSeed(store)
       THEN /\ \E u1 \in {now + 1, now + 2} : \E u2 \in {now + 3, now + 4} :
                 LET one == Append(store, NewRow(store, SeedFields("Mountain Lake"), now + 1, u1))
                     two == Append(one, NewRow(one, SeedFields("City Skyline"), now + 3, u2))
                 IN store' = two
            /\ now' = now + 4
       ELSE UNCHANGED <<store, now>>
  /\ db' = "closed"
  /\ resp' = [NoResp EXCEPT !.op = "seed_data"]
  /\ UNCHANGED req

\* ---------------------------------------------------------------- handlers
\* GET /photos
index ==
  /\ started
  /\ resp' = [NoResp EXCEPT !.op = "index", !.status = 200]
  /\ db' = "closed"
  /\ UNCHANGED <<store, now, started, req>>

\* POST /photos
create(data) ==
  /\ started
  /\ IF PhotoCreateErrors(data) # {}
       THEN \* 422 out of the validation, before the handler body runs
            /\ resp' = [NoResp EXCEPT !.op = "create", !.status = 422,
                                      !.detail = PhotoCreateErrors(data)]
            /\ db' = "none"
            /\ UNCHANGED <<store, now>>
       ELSE /\ Statements < MaxStatements
            /\ \E tu \in {now + 1, now + 2} :
                 LET photo == NewRow(store, PhotoCreateDump(data), now + 1, tu)
                 IN /\ store' = Append(store, photo)
                    /\ resp' = [NoResp EXCEPT !.op = "create", !.status = 201,
                                              !.id = photo.id, !.payload = data]
            /\ now' = now + 2
            /\ db' = "closed"
  /\ UNCHANGED <<started, req>>

\* GET /photos/{id}
show(id) ==
  /\ started
  /\ resp' = IF First(store, id) = <<>>
               THEN [NoResp EXCEPT !.op = "show", !.status = 404, !.id = id,
                                   !.detail = {"Photo not found"}]
               ELSE [NoResp EXCEPT !.op = "show", !.status = 200, !.id = id]
  /\ db' = "closed"
  /\ UNCHANGED <<store, now, started, req>>

\* PATCH /photos/{id}
update(id, data) ==
  /\ started
  /\ LET found == First(store, id)
     IN IF found = <<>>
          THEN \* db.close(); raise HTTPException(status_code=404, ...)
               /\ resp' = [NoResp EXCEPT !.op = "update", !.status = 404, !.id = id,
                                         !.detail = {"Photo not found"}]
               /\ db' = "closed"
               /\ UNCHANGED <<store, now>>
          ELSE LET loaded == found[1]
                   update_data == ModelDumpExcludeUnset(PhotoUpdate(data))
                   photo == SetAttrs(loaded, update_data)
                   cols == Dirty(loaded, photo)
                   table == SqlUpdate(store, loaded.id, cols, photo, now + 1)
               IN IF cols = {}
                    THEN \* nothing to flush: no UPDATE is sent, onupdate does not run
                         /\ resp' = [NoResp EXCEPT !.op = "update", !.status = 200,
                                                   !.id = id, !.payload = data]
                         /\ db' = "closed"
                         /\ UNCHANGED <<store, now>>
                    ELSE IF Accepts(table)
                      THEN /\ Statements < MaxStatements
                           /\ store' = table
                           /\ now' = now + 2
                           /\ resp' = [NoResp EXCEPT !.op = "update", !.status = 200,
                                                     !.id = id, !.payload = data]
                           /\ db' = "closed"
                      ELSE \* IntegrityError out of db.commit(): db.close() is not reached
                           /\ resp' = [NoResp EXCEPT !.op = "update", !.status = 500,
                                                     !.id = id,
                                                     !.detail = {"IntegrityError"}]
                           /\ db' = "open"
                           /\ UNCHANGED <<store, now>>
  /\ UNCHANGED <<started, req>>

\* The ids the clients ask for: the id of every row, and one no row has.
RequestIds(table) == 1..(Len(table) + 1)

Next ==
  \/ seed_data
  \/ index
  \/ \E data \in Bodies : create(data)
  \/ \E id \in RequestIds(store) : show(id)
  \/ \E id \in RequestIds(store), data \in Bodies : update(id, data)

Spec == Init /\ [][Next]_vars

\* ---------------------------------------------------------------- two PATCH requests at once
\* The handlers are plain def functions: FastAPI runs each request on a worker
\* thread, so the steps of two update calls interleave.  A session reads at
\* its query and writes at its commit; nothing is locked in between.
InitConc ==
  /\ \E u1 \in {1, 2} : \E u2 \in {3, 4} :
       LET one == Append(<<>>, NewRow(<<>>, SeedFields("Mountain Lake"), 1, u1))
       IN store = Append(one, NewRow(one, SeedFields("City Skyline"), 3, u2))
  /\ now = 4
  /\ started = TRUE
  /\ db = "closed"
  /\ resp = [NoResp EXCEPT !.op = "seed_data"]
  /\ req = [r \in {1, 2} |-> Idle]

\* db = SessionLocal(); photo = db.query(Photo).filter(Photo.id==id).first()
update_query(r, id, data) ==
  /\ req[r].pc = "idle"
  /\ LET found == First(store, id)
     IN req' = [req EXCEPT ![r] =
                  IF found = <<>>
                    THEN [Idle EXCEPT !.pc = "done", !.id = id, !.payload = data,
                                      !.status = 404]
                    ELSE [Idle EXCEPT !.pc = "loaded", !.id = id, !.payload = data,
                                      !.loaded = found]]
  /\ UNCHANGED <<store, now, started, db, resp>>

\* setattr for every field sent; db.commit(); db.refresh(photo); db.close()
update_commit(r) ==
  /\ req[r].pc = "loaded"
  /\ LET loaded == req[r].loaded[1]
         update_data == ModelDumpExcludeUnset(PhotoUpdate(req[r].payload))
         photo == SetAttrs(loaded, update_data)
         cols == Dirty(loaded, photo)
         table == SqlUpdate(store, loaded.id, cols, photo, now + 1)
     IN IF cols = {}
          THEN /\ req' = [req EXCEPT ![r].pc = "done", ![r].status = 200,
                                     ![r].photo = First(store, loaded.id)]
               /\ UNCHANGED <<store, now>>
          ELSE IF Accepts(table)
            THEN /\ store' = table
                 /\ now' = now + 2
                 /\ req' = [req EXCEPT ![r].pc = "done", ![r].status = 200,
                                       ![r].photo = First(table, loaded.id)]
            ELSE /\ req' = [req EXCEPT ![r].pc = "done", ![r].status = 500]
                 /\ UNCHANGED <<store, now>>
  /\ UNCHANGED <<started, db, resp>>

NextConc ==
  \/ \E r \in {1, 2}, id \in RequestIds(store), data \in Bodies : update_query(r, id, data)
  \/ \E r \in {1, 2} : update_commit(r)

SpecConc == InitConc /\ [][NextConc]_vars

\* ---------------------------------------------------------------- properties
\* The rows of a table that carry the id, found without the session's query.
RowsOf(table, id) == {i \in 1..Len(table) : table[i].id = id}

Updated == resp.op = "update" /\ resp.status = 200
Created == resp.op = "create" /\ resp.status = 201

SeedNames == {Some("Mountain Lake"), Some("City Skyline")}
SeedRows(table) == {i \in 1..Len(table) : table[i].name \in SeedNames}

\* C1: a PATCH answered 200 leaves every field the request left out as it was
\* and gives every field the request carries (a null included) the value sent;
\* the record's id and created_at and every other record stay as they were.
C1_PatchTouchesOnlySentFields ==
  [][(resp'.op = "update" /\ resp'.status = 200) =>
       /\ Len(store') = Len(store)
       /\ \A i \in 1..Len(store) :
            IF store[i].id = resp'.id
              THEN /\ \A f \in Fields :
                        store'[i][f] = IF f \in DOMAIN resp'.payload
                                         THEN resp'.payload[f]
                                         ELSE store[i][f]
                   /\ store'[i].id = store[i].id
                   /\ store'[i].created_at = store[i].created_at
              ELSE store'[i] = store[i]]_vars

\* C1 happens: a PATCH carrying only width, as null, was answered 200; the
\* width is now NULL and the seed's name, url and height are still there.
C1_Witness ==
  /\ Updated
  /\ DOMAIN resp.payload = {"width"}
  /\ resp.payload["width"] = None
  /\ \E i \in RowsOf(store, resp.id) :
       /\ store[i].width = None
       /\ store[i].name \in SeedNames
       /\ store[i].url = Some(SeedUrl)
       /\ store[i].height = Some(SeedHeight)
       /\ store[i].updated_at > store[i].created_at

\* C2: every PATCH answered 200 leaves the record with an updated_at strictly
\* greater than the one it had, whatever the payload (empty, or the stored values).
C2_UpdateRefreshesUpdatedAt ==
  [][(resp'.op = "update" /\ resp'.status = 200) =>
       \A i \in RowsOf(store, resp'.id) :
          /\ i <= Len(store')
          /\ store'[i].updated_at > store[i].updated_at]_vars

\* C3: show and update of an id no record carries answer 404 "Photo not found"
\* and leave the table as it was; an id some record carries is not answered 404.
C3_MissingIdIs404 ==
  [][(resp'.op \in {"show", "update"}) =>
       /\ (RowsOf(store, resp'.id) = {}) <=> (resp'.status = 404)
       /\ resp'.status = 404 =>
            /\ resp'.detail = {"Photo not found"}
            /\ store' = store]_vars

\* C3 happens: after a photo was created, an update of an id nobody has was
\* answered 404.
C3_Witness ==
  /\ resp.op = "update"
  /\ resp.status = 404
  /\ RowsOf(store, resp.id) = {}
  /\ Len(store) = 3

\* C4: a POST is either rejected with 422 naming name or url, with no session
\* opened and the table as it was, or it carries both a name and a url.
C4_CreateNeedsNameAndUrl ==
  [][(resp'.op = "create") =>
       IF resp'.status = 201
         THEN /\ Required \subseteq DOMAIN resp'.payload
              /\ \A f \in Required : resp'.payload[f] # None
         ELSE /\ resp'.status = 422
              /\ resp'.detail # {}
              /\ resp'.detail \subseteq Required
              /\ db' = "none"
              /\ store' = store]_vars

\* C4 happens: a POST without a name was answered 422 and the table still
\* holds the two seed rows alone.
C4_Witness ==
  /\ resp.op = "create"
  /\ resp.status = 422
  /\ resp.detail = {"name"}
  /\ Len(store) = 2

\* C5: a POST answered 201 adds exactly one record, the one it answers with:
\* it carries the fields sent (NULL for a width or height left out) and its
\* created_at equals its updated_at.
C5_CreateEchoesAndStampsOnce ==
  [][(resp'.op = "create" /\ resp'.status = 201) =>
       /\ Len(store') = Len(store) + 1
       /\ SubSeq(store', 1, Len(store)) = store
       /\ LET photo == store'[Len(store')]
          IN /\ photo.id = resp'.id
             /\ \A f \in Fields :
                  photo[f] = IF f \in DOMAIN resp'.payload
                               THEN resp'.payload[f] ELSE None
             /\ photo.created_at = photo.updated_at]_vars

\* C6: seed_data inserts the two seed rows into an empty table and nothing
\* into any other table, so the table never holds more than two seed rows.
C6_SeedOnlyWhenEmpty ==
  [][(resp'.op = "seed_data") =>
       /\ IF Len(store) = 0
            THEN /\ Len(store') = 2
                 /\ store'[1].name = Some("Mountain Lake")
                 /\ store'[2].name = Some("City Skyline")
            ELSE store' = store
       /\ Cardinality(SeedRows(store')) <= 2]_vars

\* C6 happens: the process started again after a photo was created, and the
\* table holds the created photo and the two seed rows of the first start.
C6_Witness ==
  /\ resp.op = "seed_data"
  /\ Len(store) = 3
  /\ Cardinality(SeedRows(store)) = 2

\* C7: no stored record has a NULL name or a NULL url.
C7_NameAndUrlNeverNull ==
  \A i \in 1..Len(store) : store[i].name # None /\ store[i].url # None

\* C7 happens: a PATCH tried to set a name or url to null (the table refused
\* it) and the record still has both.
C7_Witness ==
  /\ resp.op = "update"
  /\ resp.status = 500
  /\ \E i \in RowsOf(store, resp.id) : store[i].name # None /\ store[i].url # None

\* C8: no two records share an id; no step removes a record or changes the id
\* of one; a record added gets an id no record had.
C8_IdsUniqueAndStable ==
  [][/\ Len(store') >= Len(store)
     /\ \A i \in 1..Len(store) : store'[i].id = store[i].id
     /\ \A i \in (Len(store) + 1)..Len(store') : RowsOf(store, store'[i].id) = {}
     /\ \A i, j \in 1..Len(store') : store'[i].id = store'[j].id => i = j]_vars

\* C8 happens: a photo was created next to the two seed rows and the three
\* ids differ.
C8_Witness ==
  /\ Created
  /\ Len(store) = 3
  /\ Cardinality({store[i].id : i \in 1..Len(store)}) = 3
  /\ RowsOf(store, resp.id) = {3}

\* C9: when an operation has finished, the session it opened is closed.
C9_SessionReleased == db # "open"

\* C10: two PATCH requests on one record, both answered 200, with no field in
\* both payloads: every field of either payload holds the value sent, however
\* their queries and commits interleaved.
C10_DisjointUpdatesBothLand ==
  \A r \in {1, 2} :
    LET o == 3 - r
    IN (/\ req[r].pc = "done" /\ req[r].status = 200
        /\ req[o].pc = "done" /\ req[o].status = 200
        /\ req[r].id = req[o].id
        /\ DOMAIN req[r].payload \cap DOMAIN req[o].payload = {})
       => \A i \in RowsOf(store, req[r].id) :
            \A f \in DOMAIN req[r].payload : store[i][f] = req[r].payload[f]

\* C10 happens: both requests loaded the seed row before either committed,
\* one sent a width and the other a height, and the row holds both.
C10_Witness ==
  /\ req[1].pc = "done" /\ req[1].status = 200
  /\ req[2].pc = "done" /\ req[2].status = 200
  /\ req[1].id = req[2].id
  /\ DOMAIN req[1].payload = {"width"}
  /\ DOMAIN req[2].payload = {"height"}
  /\ req[1].loaded = req[2].loaded
  /\ req[1].loaded[1].width = Some(SeedWidth)
  /\ req[1].loaded[1].height = Some(SeedHeight)
  /\ \E i \in RowsOf(store, req[1].id) :
       /\ store[i].width = Some(99)
       /\ store[i].height = Some(20)

====
